---- MODULE Spec2Model ----
(***************************************************************************)
(* ExecuTorch hello_world sample: the usage-accounting bump allocator      *)
(* (ETMemoryAllocator) and the ProgramLoader singleton that hosts the      *)
(* embedded two-input addition model.                                      *)
(*                                                                         *)
(* Two specifications share the module:                                    *)
(*   SpecAlloc - one ETMemoryAllocator driven by arbitrary allocate calls; *)
(*   Spec      - the ProgramLoader public interface called in any order.   *)
(***************************************************************************)
EXTENDS Integers, Sequences, FiniteSets, TLC

\* ------------------------------------------------------------------------
\* Bounds of the model
\* ------------------------------------------------------------------------

\* allocate requests issued against the allocator under test (SpecAlloc)
MaxReqs == 3
\* request sizes are 1..MaxSize bytes (SpecAlloc)
MaxSize == 4
\* the region under test starts 0..MaxBaseOffset bytes past an aligned address
MaxBaseOffset == 1

\* loadProgram() calls made on an initialized loader (Spec)
MaxLoads == 3
\* the embedded model declares 1..MaxNumel elements per tensor (Spec)
MaxNumel == 2

\* createInputTensor is called with slot indices 0 .. MaxIndex
MaxIndex == 3

\* ------------------------------------------------------------------------
\* Machine arithmetic
\* ------------------------------------------------------------------------

\* width of size_t in the model. The sample's targets have a 32-bit size_t; the
\* model keeps the widest word the checker's integers can hold, and wraps at it
\* exactly as the machine wraps at 32 bits.
SizeBits == 30

SizeMod == 2 ^ SizeBits

\* the null pointer
NULLPTR == 0

RECURSIVE BitAnd(_, _)
\* x & y on naturals
BitAnd(x, y) ==
    IF x = 0 \/ y = 0 THEN 0
    ELSE (x % 2) * (y % 2) + 2 * BitAnd(x \div 2, y \div 2)

\* ~x on a size_t
BitNot(x) == (SizeMod - 1) - x

IsPowerOf2(n) == n > 0 /\ BitAnd(n, n - 1) = 0

\* next multiple of alignment at or after address p
AlignPointer(p, alignment) == ((p + alignment - 1) \div alignment) * alignment

\* ------------------------------------------------------------------------
\* MemoryAllocator (runtime base class): the bump cursor
\* ------------------------------------------------------------------------

\* MemoryAllocator(size, base_address) with the derived class's used_(0)
NewAllocator(size, base_address) ==
    [size |-> size, begin |-> base_address, cur |-> base_address, used |-> 0]

\* MemoryAllocator::allocate: the aligned start, the cursor moved to its end;
\* null and no change when the aligned request does not fit
BaseAllocate(a, size, alignment) ==
    LET start == AlignPointer(a.cur, alignment)
        end   == start + size
    IN  IF ~IsPowerOf2(alignment) \/ end > a.begin + a.size
        THEN [ret |-> NULLPTR, a |-> a]
        ELSE [ret |-> start, a |-> [a EXCEPT !.cur = end]]

\* ------------------------------------------------------------------------
\* ETMemoryAllocator
\* ------------------------------------------------------------------------

\* mutant: the counter grows by the size rounded up to the alignment
UsedAfter_RoundedSize(used, size, alignment) ==
    (used + ((size + alignment - 1) \div alignment) * alignment) % SizeMod

\* mutant: the counter grows by the size alone in both branches
UsedAfter_SizeOnly(used, size, alignment) == (used + size) % SizeMod

\* the used_ update of a successful allocate
UsedAfter(used, size, alignment) ==
    IF BitAnd(size, alignment - 1) = 0
    THEN (used + size) % SizeMod
    ELSE (BitAnd(used, BitNot(alignment - 1)) + alignment + size) % SizeMod

\* mutant: the counter is updated whether or not the base allocation succeeded
ETAllocate_NoNullCheck(a, size, alignment) ==
    LET r == BaseAllocate(a, size, alignment)
    IN  [ret |-> r.ret,
         a   |-> [r.a EXCEPT !.used = UsedAfter(a.used, size, alignment)]]

\* mutant: only requests whose size is a multiple of the alignment are served
ETAllocate_DropUnaligned(a, size, alignment) ==
    LET r == BaseAllocate(a, size, alignment)
    IN  IF r.ret # NULLPTR /\ BitAnd(size, alignment - 1) = 0
        THEN [ret |-> r.ret,
              a   |-> [r.a EXCEPT !.used = UsedAfter(a.used, size, alignment)]]
        ELSE [ret |-> NULLPTR, a |-> a]

\* mutant: a request is refused once the used counter says it cannot fit
ETAllocate_CheckUsed(a, size, alignment) ==
    LET r == BaseAllocate(a, size, alignment)
    IN  IF r.ret # NULLPTR /\ a.used + size <= a.size
        THEN [ret |-> r.ret,
              a   |-> [r.a EXCEPT !.used = UsedAfter(a.used, size, alignment)]]
        ELSE [ret |-> NULLPTR, a |-> a]

\* ETMemoryAllocator::allocate
ETAllocate(a, size, alignment) ==
    LET r == BaseAllocate(a, size, alignment)
    IN  IF r.ret # NULLPTR
        THEN [ret |-> r.ret,
              a   |-> [r.a EXCEPT !.used = UsedAfter(a.used, size, alignment)]]
        ELSE [ret |-> r.ret, a |-> r.a]

used_size(a) == a.used

free_size(a) == (a.size - a.used) % SizeMod

\* ------------------------------------------------------------------------
\* State
\* ------------------------------------------------------------------------

VARIABLES
    et,                 \* SpecAlloc: the ETMemoryAllocator under test
    hist,               \* SpecAlloc: the allocate calls made so far, with their results
    model_pte,          \* the embedded model binary and what the runtime finds in it
    pool_base,          \* address of method_allocation_pool (temp pool: see TempPoolBase)
    loader,             \* the ProgramLoader singleton: its fields
    sizes_storage,      \* createInputTensor's static sizes_storage[2]
    dim_order_storage,  \* createInputTensor's static dim_order_storage[2]
    tensor_impls,       \* createInputTensor's static tensor_impls[2]
    output,             \* the caller's output buffer
    nloads,             \* loadProgram() calls made on the initialized loader
    loadedOk,           \* history: some loadProgram() call has returned Ok
    lastOp,             \* history: the last call, its arguments and what it did
    ctx                 \* SpecConc: each execution context's runInference call

allocVars == <<et, hist>>

loaderVars == <<model_pte, pool_base, loader, sizes_storage, dim_order_storage,
                tensor_impls, output, nloads, loadedOk, lastOp, ctx>>

vars == <<et, hist, model_pte, pool_base, loader, sizes_storage, dim_order_storage,
          tensor_impls, output, nloads, loadedOk, lastOp, ctx>>

\* ------------------------------------------------------------------------
\* ProgramLoader: constants and the embedded model
\* ------------------------------------------------------------------------

\* a null unique_ptr
Null == [null |-> TRUE]

\* CONFIG_EXECUTORCH_METHOD_ALLOCATOR_POOL_SIZE
MethodPoolSize == 16 * 1024

\* CONFIG_EXECUTORCH_TEMP_ALLOCATOR_POOL_SIZE
TempPoolSize == 2 * 1024

\* MemoryAllocator::kDefaultAlignment, alignof(void*) on the 32-bit targets
kDefaultAlignment == 4

\* sizeof(float)
SizeofFloat == 4

\* where the linker puts method_allocation_pool: an unsigned char array has no
\* alignment requirement, and the model places it on a word boundary and off
\* every alignment
PoolBases == {4096, 4097}

\* temp_allocation_pool follows method_allocation_pool
TempPoolBase == pool_base + MethodPoolSize

\* byte sizes the memory plan of the embedded model may declare, by buffer id
PlannedSizeChoices ==
    { << >>, <<7000>>, <<4096, 6002>>, <<8192, 12288, 1024>> }

\* model_pte as the runtime sees it: whether it parses, whether it has the
\* entry point "forward", its memory plan, whether its kernels are registered,
\* the bytes load_method takes from the method allocator for the method's
\* structures, and the declared element counts of input 0 and input 1. The model
\* adds two tensors of one shape; the last program is an addition that
\* broadcasts a one-element input 0 over a two-element input 1.
\* ExactFit is a program two loads of which end on the last byte of a pool that
\* starts on a word boundary.
ExactFit ==
    [parseOk |-> TRUE, hasForward |-> TRUE, kernelsOk |-> TRUE,
     bufSizes |-> <<6141>>, numels |-> <<1, 1>>, methodBytes |-> 2048]

Programs ==
    [parseOk : {FALSE}, hasForward : {FALSE}, kernelsOk : {FALSE},
     bufSizes : {<< >>}, numels : {<<1, 1>>}, methodBytes : {2048}]
    \cup
    [parseOk : {TRUE}, hasForward : {FALSE}, kernelsOk : {FALSE},
     bufSizes : {<< >>}, numels : {<<1, 1>>}, methodBytes : {2048}]
    \cup
    [parseOk : {TRUE}, hasForward : {TRUE}, kernelsOk : BOOLEAN,
     bufSizes : PlannedSizeChoices, numels : {<<n, n>> : n \in 1 .. MaxNumel},
     methodBytes : {2048}]
    \cup
    [parseOk : {TRUE}, hasForward : {TRUE}, kernelsOk : {TRUE},
     bufSizes : {<< >>}, numels : {<<1, 2>>}, methodBytes : {2048}]
    \cup
    {ExactFit}

\* declared element count of input slot input_index (0 or 1)
InputNumel(pte, input_index) == pte.numels[input_index + 1]

\* element count of the output tensor of the addition
OutputNumel(pte) ==
    IF pte.numels[1] > pte.numels[2] THEN pte.numels[1] ELSE pte.numels[2]

\* the caller's input buffers of `size` floats: <<2, 4, ..>> and <<3, 6, ..>>
Buffers(size) == { [i \in 1 .. size |-> v * i] : v \in {2, 3} }

\* length of the caller's output buffer: room for one element more than the
\* largest output tensor
OutBufLen == MaxNumel + 1

\* the sizes a caller passes for a model of `numel` elements: one less, the
\* declared count, one more
SizesAround(numel) == {numel - 1, numel, numel + 1}

\* ProgramLoader::ProgramLoader
NewLoader ==
    [initialized_      |-> FALSE,
     method_allocator_ |-> Null,
     temp_allocator_   |-> Null,
     memory_manager_   |-> Null,
     planned_memory_   |-> Null,
     program_          |-> Null,
     method_           |-> Null,
     planned_buffers_  |-> << >>,
     planned_spans_    |-> << >>]

\* the record of a call in lastOp
Call(op, status) ==
    [op |-> op, status |-> status, input1 |-> << >>, input2 |-> << >>,
     input_size |-> 0, output_size |-> 0, input_index |-> 0, bound |-> << >>,
     executed |-> FALSE]

\* the execution contexts that call into the singleton
Contexts == {"main", "worker"}

\* a context outside runInference: where it is in the call (pc), the call's
\* arguments, its own output buffer, the status its last call returned, the
\* tensors the method held when the call executed it, and whether the other
\* context was inside runInference at any time during the call
IdleContext ==
    [pc |-> "idle", input1 |-> << >>, input2 |-> << >>, input_size |-> 0,
     output_size |-> 0, output |-> [i \in 1 .. OutBufLen |-> 0],
     status |-> "none", ranWith |-> << >>, overlapped |-> FALSE]

InitLoaderWith(pte, base) ==
    /\ model_pte = pte
    /\ pool_base = base
    /\ loader = NewLoader
    /\ sizes_storage = [i \in 0 .. 1 |-> << >>]
    /\ dim_order_storage = [i \in 0 .. 1 |-> << >>]
    /\ tensor_impls = [i \in 0 .. 1 |-> Null]
    /\ output = [i \in 1 .. OutBufLen |-> 0]
    /\ nloads = 0
    /\ loadedOk = FALSE
    /\ lastOp = Call("none", "Ok")
    /\ ctx = [c \in Contexts |-> IdleContext]

\* ------------------------------------------------------------------------
\* ProgramLoader::isLoaded
\* ------------------------------------------------------------------------

\* mutant: the program pointer is tested instead of the method
IsLoadedIn_ProgramOnly(l) == l.program_ # Null

IsLoadedIn(l) == l.method_ # Null /\ l.method_.ok

isLoaded == IsLoadedIn(loader)

\* ------------------------------------------------------------------------
\* ProgramLoader::initialize
\* ------------------------------------------------------------------------

\* the allocators built over the two static pools
Initialized(l) ==
    [l EXCEPT !.method_allocator_ = NewAllocator(MethodPoolSize, pool_base),
              !.temp_allocator_   = NewAllocator(TempPoolSize, TempPoolBase),
              !.initialized_      = TRUE]

\* mutant: no already-initialized check, the allocators are built again
InitializeOf_NoGuard(l) == Initialized(l)

InitializeOf(l) == IF l.initialized_ THEN l ELSE Initialized(l)

initialize ==
    /\ loader' = InitializeOf(loader)
    /\ lastOp' = Call("initialize", "Ok")
    /\ UNCHANGED <<model_pte, pool_base, sizes_storage, dim_order_storage,
                   tensor_impls, output, nloads, loadedOk, ctx, allocVars>>

\* ------------------------------------------------------------------------
\* ProgramLoader::loadProgram
\* ------------------------------------------------------------------------

RECURSIVE AllocPlanned_SkipRefused(_, _, _)
\* mutant: a refused buffer is skipped and the loop goes on to the next id
\* before the error is returned
AllocPlanned_SkipRefused(st, sizes, id) ==
    IF id > Len(sizes) THEN st
    ELSE LET buffer_size == sizes[id]
             r == ETAllocate(st.a, buffer_size, kDefaultAlignment)
         IN  IF r.ret = NULLPTR
             THEN AllocPlanned_SkipRefused(
                      [st EXCEPT !.a = r.a, !.err = "MemoryAllocationFailed"],
                      sizes, id + 1)
             ELSE AllocPlanned_SkipRefused(
                      [st EXCEPT !.a = r.a,
                                 !.buffers = Append(st.buffers, r.ret),
                                 !.spans = Append(st.spans,
                                               [data |-> r.ret, size |-> buffer_size])],
                      sizes, id + 1)

RECURSIVE AllocPlanned(_, _, _)
\* the loop over buffer ids `id`.. (1-based here): st carries the method
\* allocator, planned_buffers_, planned_spans_ and the error that stopped it
AllocPlanned(st, sizes, id) ==
    IF id > Len(sizes) THEN st
    ELSE LET buffer_size == sizes[id]
             r == ETAllocate(st.a, buffer_size, kDefaultAlignment)
         IN  IF r.ret = NULLPTR
             THEN [st EXCEPT !.a = r.a, !.err = "MemoryAllocationFailed"]
             ELSE AllocPlanned(
                      [a       |-> r.a,
                       buffers |-> Append(st.buffers, r.ret),
                       spans   |-> Append(st.spans,
                                          [data |-> r.ret, size |-> buffer_size]),
                       err     |-> "Ok"],
                      sizes, id + 1)

\* Program::load_method("forward", memory_manager): the method's structures
\* come out of the method allocator, then the kernels are resolved
LoadMethod(pte, a) ==
    LET r == ETAllocate(a, pte.methodBytes, kDefaultAlignment)
    IN  IF r.ret = NULLPTR THEN [err |-> "MemoryAllocationFailed", a |-> r.a]
        ELSE IF ~pte.kernelsOk THEN [err |-> "OperatorMissing", a |-> r.a]
        ELSE [err |-> "Ok", a |-> r.a]

\* a Result<Method> that is ok, loaded from program n with memory manager n
LoadedMethod(n) ==
    [ok |-> TRUE, program |-> n, memory_manager |-> n,
     inputs |-> [i \in 0 .. 1 |-> << >>], out |-> << >>]

\* mutant: method_ is stored before the result of load_method is checked
InstantiateMethod_StoreUnchecked(l, pte, n) ==
    LET m  == LoadMethod(pte, l.method_allocator_)
        l3 == [l EXCEPT !.planned_memory_   = [id |-> n, nspans |-> Len(l.planned_spans_)],
                        !.memory_manager_   = [id |-> n],
                        !.method_allocator_ = m.a,
                        !.method_           = LoadedMethod(n)]
    IN  [status |-> m.err, l |-> l3]

\* loadProgram() from the planned arena on: planned_memory_, memory_manager_,
\* load_method and method_
InstantiateMethod(l, pte, n) ==
    LET m  == LoadMethod(pte, l.method_allocator_)
        l3 == [l EXCEPT !.planned_memory_   = [id |-> n, nspans |-> Len(l.planned_spans_)],
                        !.memory_manager_   = [id |-> n],
                        !.method_allocator_ = m.a]
    IN  IF m.err # "Ok" THEN [status |-> m.err, l |-> l3]
        ELSE [status |-> "Ok", l |-> [l3 EXCEPT !.method_ = LoadedMethod(n)]]

\* mutant: a load stopped at a planned buffer releases the whole method pool
LoadEmbedded_ReleaseOnFailure(l, pte, n) ==
    IF ~pte.parseOk THEN [status |-> "InvalidProgram", l |-> l]
    ELSE
    LET l1 == [l EXCEPT !.program_ = [id |-> n]]
    IN  IF ~pte.hasForward THEN [status |-> "MethodMetaError", l |-> l1]
    ELSE
    LET p  == AllocPlanned([a |-> l1.method_allocator_, buffers |-> << >>,
                            spans |-> << >>, err |-> "Ok"], pte.bufSizes, 1)
        l2 == [l1 EXCEPT !.method_allocator_ = p.a,
                         !.planned_buffers_ = p.buffers,
                         !.planned_spans_ = p.spans]
    IN  IF p.err # "Ok"
        THEN [status |-> p.err,
              l |-> [l2 EXCEPT !.method_allocator_ =
                                   NewAllocator(MethodPoolSize, p.a.begin)]]
        ELSE InstantiateMethod(l2, pte, n)

\* loadProgram() past its initialized_ check, as call number n of loader l:
\* the status returned and the loader it leaves
LoadEmbedded(l, pte, n) ==
    IF ~pte.parseOk THEN [status |-> "InvalidProgram", l |-> l]
    ELSE
    LET l1 == [l EXCEPT !.program_ = [id |-> n]]
    IN  IF ~pte.hasForward THEN [status |-> "MethodMetaError", l |-> l1]
    ELSE
    LET p  == AllocPlanned([a |-> l1.method_allocator_, buffers |-> << >>,
                            spans |-> << >>, err |-> "Ok"], pte.bufSizes, 1)
        l2 == [l1 EXCEPT !.method_allocator_ = p.a,
                         !.planned_buffers_  = p.buffers,
                         !.planned_spans_    = p.spans]
    IN  IF p.err # "Ok" THEN [status |-> p.err, l |-> l2]
        ELSE InstantiateMethod(l2, pte, n)

\* mutant: the initialized_ check comes after the program is parsed and stored
LoadProgramOf_LateInitCheck(l, pte, n) ==
    IF l.initialized_ THEN LoadEmbedded(l, pte, n)
    ELSE IF ~pte.parseOk THEN [status |-> "InvalidProgram", l |-> l]
    ELSE [status |-> "InvalidState", l |-> [l EXCEPT !.program_ = [id |-> n]]]

\* loadProgram() on loader l
LoadProgramOf(l, pte, n) ==
    IF ~l.initialized_ THEN [status |-> "InvalidState", l |-> l]
    ELSE LoadEmbedded(l, pte, n)

loadProgram ==
    /\ nloads < MaxLoads
    /\ LET r == LoadProgramOf(loader, model_pte, nloads + 1)
       IN  /\ loader' = r.l
           /\ lastOp' = Call("loadProgram", r.status)
           /\ loadedOk' = (loadedOk \/ r.status = "Ok")
    /\ nloads' = IF loader.initialized_ THEN nloads + 1 ELSE nloads
    /\ UNCHANGED <<model_pte, pool_base, sizes_storage, dim_order_storage,
                   tensor_impls, output, ctx, allocVars>>

\* ------------------------------------------------------------------------
\* ProgramLoader::createInputTensor
\* ------------------------------------------------------------------------

\* Method::method_meta().input_tensor_meta(input_index) of the two-input model
InputTensorMeta(pte, input_index) ==
    IF input_index < 2
    THEN [ok |-> TRUE, err |-> "Ok", sizes |-> <<InputNumel(pte, input_index)>>,
          dim_order |-> <<0>>,
          nbytes |-> InputNumel(pte, input_index) * SizeofFloat]
    ELSE [ok |-> FALSE, err |-> "InvalidArgument", sizes |-> << >>,
          dim_order |-> << >>, nbytes |-> 0]

\* Method::set_input(tensor, input_index): the slot now views the caller's data
SetInput(method, data, input_index) ==
    [method EXCEPT !.inputs[input_index] = data]

\* the function-static storage of createInputTensor, as one record
StaticStorage ==
    [sizes |-> sizes_storage, dim_order |-> dim_order_storage, impls |-> tensor_impls]

\* createInputTensor(data, size, input_index) on loader l with static storage st:
\* the status returned, the loader and the storage it leaves
\* tensor_meta_result being what the metadata query gives for input_index
CreateInputTensorWith(l, st, tensor_meta_result, data, size, input_index) ==
    IF ~IsLoadedIn(l) THEN [err |-> "InvalidState", l |-> l, st |-> st]
    ELSE
    LET tensor_meta == tensor_meta_result
    IN  IF ~tensor_meta.ok THEN [err |-> tensor_meta.err, l |-> l, st |-> st]
    ELSE
    LET expected_bytes == tensor_meta.nbytes
        provided_bytes == (size * SizeofFloat) % SizeMod
    IN  IF provided_bytes # expected_bytes
        THEN [err |-> "InvalidArgument", l |-> l, st |-> st]
        ELSE IF input_index >= 2
        THEN [err |-> "InvalidArgument", l |-> l, st |-> st]
        ELSE [err |-> "Ok",
              l   |-> [l EXCEPT !.method_ = SetInput(l.method_, data, input_index)],
              st  |-> [sizes     |-> [st.sizes EXCEPT ![input_index] = tensor_meta.sizes],
                       dim_order |-> [st.dim_order EXCEPT
                                         ![input_index] = tensor_meta.dim_order],
                       impls     |-> [st.impls EXCEPT ![input_index] =
                                         [sizes |-> tensor_meta.sizes, data |-> data,
                                          dim_order |-> tensor_meta.dim_order]]]]

\* createInputTensor on the two-input model, as runInference calls it
CreateInputTensor(l, st, pte, data, size, input_index) ==
    CreateInputTensorWith(l, st, InputTensorMeta(pte, input_index),
                          data, size, input_index)

\* what input_tensor_meta(input_index) may give: for the slots of the model its
\* declared metadata; for an index past them the runtime's error, whose code is
\* the runtime's own choice, or the metadata of a further one-element input of a
\* model that has one
MetaOutcomes(pte, input_index) ==
    IF input_index < 2 THEN {InputTensorMeta(pte, input_index)}
    ELSE { InputTensorMeta(pte, input_index),
           [InputTensorMeta(pte, input_index) EXCEPT !.err = "Internal"],
           [ok |-> TRUE, err |-> "Ok", sizes |-> <<1>>, dim_order |-> <<0>>,
            nbytes |-> SizeofFloat] }

\* one call createInputTensor(data, size, input_index) made on its own
createInputTensor(data, size, input_index, tensor_meta_result) ==
    /\ LET c == CreateInputTensorWith(loader, StaticStorage, tensor_meta_result,
                                      data, size, input_index)
       IN  /\ loader' = c.l
           /\ sizes_storage' = c.st.sizes
           /\ dim_order_storage' = c.st.dim_order
           /\ tensor_impls' = c.st.impls
           /\ lastOp' = [Call("createInputTensor", c.err) EXCEPT
                             !.input1 = data, !.input_size = size,
                             !.input_index = input_index]
    /\ UNCHANGED <<model_pte, pool_base, output, nloads, loadedOk, ctx, allocVars>>

\* ------------------------------------------------------------------------
\* ProgramLoader::runInference
\* ------------------------------------------------------------------------

\* element i of a bound tensor, a one-element tensor being broadcast
Elem(tensor, i) == IF Len(tensor) = 1 THEN tensor[1] ELSE tensor[i]

\* Method::execute() of the addition model: the output tensor is the
\* element-wise sum of the tensors bound to slots 0 and 1; a method with an
\* input that was never set does not run
Execute(method, pte) ==
    IF method.inputs[0] = << >> \/ method.inputs[1] = << >>
    THEN [err |-> "InvalidState", method |-> method]
    ELSE [err    |-> "Ok",
          method |-> [method EXCEPT !.out =
                         [i \in 1 .. OutputNumel(pte) |->
                             Elem(method.inputs[0], i) + Elem(method.inputs[1], i)]]]

\* mutant: the last element copied is repeated to the end of the destination
Memcpy_FillBuffer(dst, src, n) ==
    [i \in DOMAIN dst |-> IF i <= n THEN src[i] ELSE src[n]]

\* std::memcpy(output, output_data, n * sizeof(float))
Memcpy(dst, src, n) == [i \in DOMAIN dst |-> IF i <= n THEN src[i] ELSE dst[i]]

\* what a runInference call leaves behind
Ran(status, l, st, out, bound, executed) ==
    [status |-> status, l |-> l, st |-> st, output |-> out, bound |-> bound,
     executed |-> executed]

\* mutant: the output is copied before its size is validated, as far as it fits
ExecuteAndCopy_CopyFirst(l, st, out, pte, output_size) ==
    LET e  == Execute(l.method_, pte)
        l2 == [l EXCEPT !.method_ = e.method]
        expected_elements == Len(e.method.out)
    IN  IF e.err # "Ok" THEN Ran(e.err, l2, st, out, <<0, 1>>, TRUE)
        ELSE IF output_size < expected_elements
        THEN Ran("InvalidArgument", l2, st, Memcpy(out, e.method.out, output_size),
                 <<0, 1>>, TRUE)
        ELSE Ran("Ok", l2, st, Memcpy(out, e.method.out, expected_elements),
                 <<0, 1>>, TRUE)

\* the rest of runInference once both slots are bound: execute, read output 0,
\* validate output_size, copy
ExecuteAndCopy(l, st, out, pte, output_size) ==
    LET e  == Execute(l.method_, pte)
        l2 == [l EXCEPT !.method_ = e.method]
    IN  IF e.err # "Ok" THEN Ran(e.err, l2, st, out, <<0, 1>>, TRUE)
    ELSE
    LET expected_elements == Len(e.method.out)
    IN  IF output_size < expected_elements
        THEN Ran("InvalidArgument", l2, st, out, <<0, 1>>, TRUE)
        ELSE Ran("Ok", l2, st, Memcpy(out, e.method.out, expected_elements),
                 <<0, 1>>, TRUE)

\* mutant: a slot that already holds a tensor of the right size is not bound again
RunInferenceOf_KeepBound(l, st, out, pte, input1, input2, input_size, output_size) ==
    IF ~IsLoadedIn(l) THEN Ran("InvalidState", l, st, out, << >>, FALSE)
    ELSE
    LET c0 == CreateInputTensor(l, st, pte, input1, input_size, 0)
    IN  IF c0.err # "Ok" THEN Ran(c0.err, c0.l, c0.st, out, << >>, FALSE)
    ELSE
    LET c1 == IF Len(c0.l.method_.inputs[1]) = input_size
              THEN [err |-> "Ok", l |-> c0.l, st |-> c0.st]
              ELSE CreateInputTensor(c0.l, c0.st, pte, input2, input_size, 1)
    IN  IF c1.err # "Ok" THEN Ran(c1.err, c1.l, c1.st, out, <<0>>, FALSE)
        ELSE ExecuteAndCopy(c1.l, c1.st, out, pte, output_size)

\* mutant: the status of binding slot 1 is not checked
RunInferenceOf_SecondUnchecked(l, st, out, pte, input1, input2, input_size, output_size) ==
    IF ~IsLoadedIn(l) THEN Ran("InvalidState", l, st, out, << >>, FALSE)
    ELSE
    LET c0 == CreateInputTensor(l, st, pte, input1, input_size, 0)
    IN  IF c0.err # "Ok" THEN Ran(c0.err, c0.l, c0.st, out, << >>, FALSE)
    ELSE
    LET c1 == CreateInputTensor(c0.l, c0.st, pte, input2, input_size, 1)
    IN  ExecuteAndCopy(c1.l, c1.st, out, pte, output_size)

\* runInference(input1, input2, input_size, output, output_size) with the
\* caller's output buffer holding `out`
RunInferenceOf(l, st, out, pte, input1, input2, input_size, output_size) ==
    IF ~IsLoadedIn(l) THEN Ran("InvalidState", l, st, out, << >>, FALSE)
    ELSE
    LET c0 == CreateInputTensor(l, st, pte, input1, input_size, 0)
    IN  IF c0.err # "Ok" THEN Ran(c0.err, c0.l, c0.st, out, << >>, FALSE)
    ELSE
    LET c1 == CreateInputTensor(c0.l, c0.st, pte, input2, input_size, 1)
    IN  IF c1.err # "Ok" THEN Ran(c1.err, c1.l, c1.st, out, <<0>>, FALSE)
        ELSE ExecuteAndCopy(c1.l, c1.st, out, pte, output_size)

runInference(input1, input2, input_size, output_size) ==
    LET r == RunInferenceOf(loader, StaticStorage, output, model_pte,
                            input1, input2, input_size, output_size)
    IN  /\ loader' = r.l
        /\ sizes_storage' = r.st.sizes
        /\ dim_order_storage' = r.st.dim_order
        /\ tensor_impls' = r.st.impls
        /\ output' = r.output
        /\ lastOp' = [op |-> "runInference", status |-> r.status,
                      input1 |-> input1, input2 |-> input2,
                      input_size |-> input_size, output_size |-> output_size,
                      bound |-> r.bound, executed |-> r.executed]
        /\ UNCHANGED <<model_pte, pool_base, nloads, loadedOk, ctx, allocVars>>

\* ------------------------------------------------------------------------
\* Spec: the loader's public interface, called in any order
\* ------------------------------------------------------------------------

\* the pool on a word boundary is explored with the program that fills it
Init ==
    /\ \E pte \in Programs, base \in PoolBases :
           /\ base % kDefaultAlignment = 0 => pte = ExactFit
           /\ InitLoaderWith(pte, base)
    /\ et = NewAllocator(0, 16)
    /\ hist = << >>

Next ==
    \/ initialize
    \/ loadProgram
    \/ \E input_size \in SizesAround(InputNumel(model_pte, 0)),
          output_size \in SizesAround(OutputNumel(model_pte)) :
           \E input1 \in Buffers(input_size), input2 \in Buffers(input_size) :
               runInference(input1, input2, input_size, output_size)

Spec == Init /\ [][Next]_vars

\* ------------------------------------------------------------------------
\* SpecReload: the same interface under a caller that goes on calling
\* initialize() and loadProgram()
\* ------------------------------------------------------------------------

\* a loadProgram() call on the initialized loader: the only step that counts
\* one more such call
loadProgramCalled ==
    /\ nloads < MaxLoads
    /\ loader.initialized_
    /\ nloads' = nloads + 1

SpecReload ==
    Init /\ [][Next]_vars /\ WF_loader(initialize) /\ WF_nloads(loadProgramCalled)

\* ------------------------------------------------------------------------
\* SpecConc: runInference called from two execution contexts with no lock, one
\* statement of the call at a time. The racing accesses to the static storage
\* and to the method take effect in the order of the steps.
\* ------------------------------------------------------------------------

Other(c) == CHOOSE d \in Contexts : d # c

\* context c is inside runInference
Active(c) == ctx[c].pc # "idle"

\* where a call stands: before the storage of slot 0 or 1 is written, before
\* set_input of that slot, before execute, before the output is copied
StorePc(input_index) == IF input_index = 0 THEN "store0" ELSE "store1"

SetPc(input_index) == IF input_index = 0 THEN "set0" ELSE "set1"

\* the data pointer the call of context c passes for slot input_index
InputOf(call, input_index) == IF input_index = 0 THEN call.input1 ELSE call.input2

\* the call of context c returns status
Returned(call, status) == [call EXCEPT !.pc = "idle", !.status = status]

\* createInputTensor up to the TensorImpl: the checks, then the static storage
\* of the slot is overwritten with the metadata and the caller's data pointer
StoreTensor(l, st, pte, data, size, input_index) ==
    LET c == CreateInputTensor(l, st, pte, data, size, input_index)
    IN  [err |-> c.err, st |-> c.st]

\* mutant: a slot that holds a tensor is not bound again
BindStored_KeepBound(method, impls, input_index) ==
    IF method.inputs[input_index] # << >> THEN method
    ELSE SetInput(method, impls[input_index].data, input_index)

\* createInputTensor from the Tensor on: the tensor made of the static
\* TensorImpl of the slot, as it is now, is set as the method's input
BindStored(method, impls, input_index) ==
    SetInput(method, impls[input_index].data, input_index)

\* context c enters runInference(input1, input2, input_size, output, output_size)
\* with its own output buffer: the isLoaded() check
enterRunInference(c, input1, input2, input_size, output_size) ==
    /\ ~Active(c)
    /\ ctx' = [ctx EXCEPT
                  ![c] = [pc |-> IF isLoaded THEN StorePc(0) ELSE "idle",
                          input1 |-> input1, input2 |-> input2,
                          input_size |-> input_size, output_size |-> output_size,
                          output |-> ctx[c].output,
                          status |-> IF isLoaded THEN "running" ELSE "InvalidState",
                          ranWith |-> << >>,
                          overlapped |-> Active(Other(c))],
                  ![Other(c)].overlapped = @ \/ Active(Other(c))]
    /\ UNCHANGED <<model_pte, pool_base, loader, sizes_storage, dim_order_storage,
                   tensor_impls, output, nloads, loadedOk, lastOp, allocVars>>

\* context c, in createInputTensor for slot input_index, gets as far as the
\* TensorImpl
storeTensor(c, input_index) ==
    /\ ctx[c].pc = StorePc(input_index)
    /\ LET r == StoreTensor(loader, StaticStorage, model_pte,
                            InputOf(ctx[c], input_index), ctx[c].input_size,
                            input_index)
       IN  /\ sizes_storage' = r.st.sizes
           /\ dim_order_storage' = r.st.dim_order
           /\ tensor_impls' = r.st.impls
           /\ ctx' = [ctx EXCEPT ![c] =
                         IF r.err # "Ok" THEN Returned(@, r.err)
                         ELSE [@ EXCEPT !.pc = SetPc(input_index)]]
    /\ UNCHANGED <<model_pte, pool_base, loader, output, nloads, loadedOk, lastOp,
                   allocVars>>

\* context c calls set_input for slot input_index and leaves createInputTensor
setInput(c, input_index) ==
    /\ ctx[c].pc = SetPc(input_index)
    /\ loader' = [loader EXCEPT
                     !.method_ = BindStored(@, tensor_impls, input_index)]
    /\ ctx' = [ctx EXCEPT ![c].pc =
                  IF input_index = 0 THEN StorePc(1) ELSE "execute"]
    /\ UNCHANGED <<model_pte, pool_base, sizes_storage, dim_order_storage,
                   tensor_impls, output, nloads, loadedOk, lastOp, allocVars>>

\* context c calls method.execute()
execute(c) ==
    /\ ctx[c].pc = "execute"
    /\ LET e == Execute(loader.method_, model_pte)
       IN  /\ loader' = [loader EXCEPT !.method_ = e.method]
           /\ ctx' = [ctx EXCEPT ![c] =
                         IF e.err # "Ok" THEN Returned(@, e.err)
                         ELSE [@ EXCEPT !.pc = "copy",
                                        !.ranWith = <<loader.method_.inputs[0],
                                                      loader.method_.inputs[1]>>]]
    /\ UNCHANGED <<model_pte, pool_base, sizes_storage, dim_order_storage,
                   tensor_impls, output, nloads, loadedOk, lastOp, allocVars>>

\* context c reads output 0 of the method, validates output_size, copies into
\* its own buffer and returns
copyOutput(c) ==
    /\ ctx[c].pc = "copy"
    /\ LET output_tensor == loader.method_.out
           expected_elements == Len(output_tensor)
       IN  ctx' = [ctx EXCEPT ![c] =
                      IF ctx[c].output_size < expected_elements
                      THEN Returned(@, "InvalidArgument")
                      ELSE Returned([@ EXCEPT !.output =
                                        Memcpy(@, output_tensor, expected_elements)],
                                    "Ok")]
    /\ UNCHANGED <<model_pte, pool_base, loader, sizes_storage, dim_order_storage,
                   tensor_impls, output, nloads, loadedOk, lastOp, allocVars>>

\* the model of the sample: two one-element inputs, no planned buffers
SampleProgram ==
    CHOOSE pte \in Programs :
        /\ pte.parseOk /\ pte.hasForward /\ pte.kernelsOk
        /\ pte.bufSizes = << >>
        /\ pte.numels = <<1, 1>>

InitConc ==
    /\ InitLoaderWith(SampleProgram,
                      CHOOSE base \in PoolBases : base % kDefaultAlignment # 0)
    /\ et = NewAllocator(0, 16)
    /\ hist = << >>

\* initialize() and loadProgram() are called while no context is inside
\* runInference; the sizes passed are the declared ones, as in the sample
NextConc ==
    \/ (\A c \in Contexts : ~Active(c)) /\ initialize
    \/ (\A c \in Contexts : ~Active(c)) /\ loadProgram
    \/ \E c \in Contexts :
           \/ \E input1 \in Buffers(InputNumel(model_pte, 0)),
                 input2 \in Buffers(InputNumel(model_pte, 0)) :
                  enterRunInference(c, input1, input2, InputNumel(model_pte, 0),
                                    OutputNumel(model_pte))
           \/ \E input_index \in 0 .. 1 : storeTensor(c, input_index)
           \/ \E input_index \in 0 .. 1 : setInput(c, input_index)
           \/ execute(c)
           \/ copyOutput(c)

SpecConc == InitConc /\ [][NextConc]_vars

\* ------------------------------------------------------------------------
\* SpecTensor: createInputTensor called on its own, with any slot index
\* ------------------------------------------------------------------------

InputIndices == 0 .. MaxIndex

NextTensor ==
    \/ initialize
    \/ loadProgram
    \/ \E input_index \in InputIndices,
          size \in SizesAround(InputNumel(model_pte, 0)) :
           \E data \in Buffers(size),
              tensor_meta_result \in MetaOutcomes(model_pte, input_index) :
               createInputTensor(data, size, input_index, tensor_meta_result)

SpecTensor == Init /\ [][NextTensor]_vars

\* ------------------------------------------------------------------------
\* SpecAlloc: an ETMemoryAllocator under arbitrary allocate calls
\* ------------------------------------------------------------------------

\* base addresses of the region under test: 16, which every tested alignment
\* divides, and the addresses after it
BaseAddresses == 16 .. 16 + MaxBaseOffset

Capacities == {8, 9, 16}

Alignments == {1, 4, 8}

Sizes == 1 .. MaxSize

InitAlloc ==
    /\ \E c \in Capacities, base \in BaseAddresses : et = NewAllocator(c, base)
    /\ hist = << >>
    /\ InitLoaderWith(CHOOSE pte \in Programs : ~pte.parseOk,
                      CHOOSE base \in PoolBases : base % kDefaultAlignment = 0)

\* one call et.allocate(size, alignment)
Allocate(size, alignment) ==
    /\ Len(hist) < MaxReqs
    /\ LET r == ETAllocate(et, size, alignment)
       IN  /\ et' = r.a
           /\ hist' = Append(hist, [size |-> size, alignment |-> alignment,
                                    ret |-> r.ret, curBefore |-> et.cur,
                                    usedBefore |-> used_size(et),
                                    usedAfter |-> used_size(r.a),
                                    freeBefore |-> free_size(et),
                                    freeAfter |-> free_size(r.a)])
    /\ UNCHANGED loaderVars

NextAlloc == \E size \in Sizes, alignment \in Alignments : Allocate(size, alignment)

SpecAlloc == InitAlloc /\ [][NextAlloc]_vars

\* ------------------------------------------------------------------------
\* Properties of the allocator
\* ------------------------------------------------------------------------

\* size rounded up to a multiple of its alignment
RoundedSize(size, alignment) == ((size + alignment - 1) \div alignment) * alignment

RECURSIVE SumRounded(_)
SumRounded(h) ==
    IF h = << >> THEN 0
    ELSE RoundedSize(Head(h).size, Head(h).alignment) + SumRounded(Tail(h))

\* every call made so far returned a region inside the backing region, aligned as
\* asked, and no two returned regions share a byte
AllServed ==
    /\ \A i \in 1 .. Len(hist) :
           /\ hist[i].ret # NULLPTR
           /\ hist[i].ret >= et.begin
           /\ hist[i].ret + hist[i].size <= et.begin + et.size
           /\ hist[i].ret % hist[i].alignment = 0
    /\ \A i, j \in 1 .. Len(hist) :
           i < j => \/ hist[i].ret + hist[i].size <= hist[j].ret
                    \/ hist[j].ret + hist[j].size <= hist[i].ret

\* every call so far asked for the same alignment, and the region starts on it
UniformAlignment ==
    \E al \in Alignments :
        /\ et.begin % al = 0
        /\ \A i \in 1 .. Len(hist) : hist[i].alignment = al

\* C9: after any sequence of allocate calls, used_size() <= capacity.
C9_UsedWithinCapacity == used_size(et) <= et.size

\* C10 as stated: requests whose rounded sizes sum to at most the capacity are all
\* served, with regions inside the backing region, disjoint and aligned.
C10_FittingRequestsServed == SumRounded(hist) <= et.size => AllServed

\* C10 amended: the same, for requests that all use one alignment on a region
\* whose base address is a multiple of that alignment.
C10_UniformFittingRequestsServed ==
    (UniformAlignment /\ SumRounded(hist) <= et.size) => AllServed

C10_Witness ==
    /\ Len(hist) >= 2
    /\ UniformAlignment
    /\ SumRounded(hist) <= et.size
    /\ \E i \in 1 .. Len(hist) :
           hist[i].alignment > 1 /\ hist[i].size % hist[i].alignment # 0
    /\ AllServed

\* the request of call e fitted between the cursor and the end of the region
Fits(e) == AlignPointer(e.curBefore, e.alignment) + e.size <= et.begin + et.size

\* C11: a failed allocate (null) leaves used_size() and free_size() as they were,
\* and every later request that fits is still served.
C11_FailedAllocateChangesNothing ==
    \A i \in 1 .. Len(hist) :
        hist[i].ret = NULLPTR =>
            /\ hist[i].usedAfter = hist[i].usedBefore
            /\ hist[i].freeAfter = hist[i].freeBefore
            /\ \A j \in i + 1 .. Len(hist) : Fits(hist[j]) => hist[j].ret # NULLPTR

\* a refused call followed by a served one
C11_Witness ==
    \E i, j \in 1 .. Len(hist) :
        /\ i < j
        /\ hist[i].ret = NULLPTR
        /\ hist[i].usedBefore > 0
        /\ hist[j].ret # NULLPTR

\* C12: after every allocate, successful or failed, used_size() + free_size() is
\* the capacity, free_size() being a count of bytes between 0 and the capacity.
C12_UsedPlusFreeIsCapacity ==
    /\ used_size(et) + free_size(et) = et.size
    /\ free_size(et) >= 0
    /\ free_size(et) <= et.size

\* used rounded up to the next multiple of alignment (itself when it is one)
RoundUp(used, alignment) == ((used + alignment - 1) \div alignment) * alignment

\* used rounded down to a multiple of alignment
RoundDown(used, alignment) == (used \div alignment) * alignment

\* C17 as stated: a served request grows used by size when size is a multiple of
\* the alignment, and otherwise sets it to used rounded up to the next alignment
\* boundary, plus one alignment unit, plus size; a refused request changes nothing.
C17_UsedRoundedUpRule ==
    \A i \in 1 .. Len(hist) :
        LET e == hist[i]
        IN  IF e.ret = NULLPTR THEN e.usedAfter = e.usedBefore
            ELSE IF e.size % e.alignment = 0 THEN e.usedAfter = e.usedBefore + e.size
            ELSE e.usedAfter = RoundUp(e.usedBefore, e.alignment) + e.alignment + e.size

\* C17 amended: in the second case used is rounded down to an alignment boundary
\* before the alignment unit and the size are added.
C17_UsedRoundedDownRule ==
    \A i \in 1 .. Len(hist) :
        LET e == hist[i]
        IN  IF e.ret = NULLPTR THEN e.usedAfter = e.usedBefore
            ELSE IF e.size % e.alignment = 0 THEN e.usedAfter = e.usedBefore + e.size
            ELSE e.usedAfter = RoundDown(e.usedBefore, e.alignment) + e.alignment + e.size

\* a served request whose size is no multiple of its alignment, made when the
\* used counter was off the alignment boundary, and a refused request
C17_Witness ==
    /\ \E i \in 1 .. Len(hist) :
           /\ hist[i].ret # NULLPTR
           /\ hist[i].size % hist[i].alignment # 0
           /\ hist[i].usedBefore % hist[i].alignment # 0
    /\ \E i \in 1 .. Len(hist) :
           hist[i].ret # NULLPTR /\ hist[i].size % hist[i].alignment = 0
    /\ \E i \in 1 .. Len(hist) : hist[i].ret = NULLPTR

\* the plain bump allocator given the calls of h in order: every result, and its
\* state after the last call
RECURSIVE PlainRun(_, _)
PlainRun(a, h) ==
    IF h = << >> THEN [rets |-> << >>, a |-> a]
    ELSE LET r    == BaseAllocate(a, Head(h).size, Head(h).alignment)
             rest == PlainRun(r.a, Tail(h))
         IN  [rets |-> <<r.ret>> \o rest.rets, a |-> rest.a]

\* C18: every call returns what a plain bump allocator on the same region, given
\* the same calls, returns: the same address or the same refusal, and the cursor
\* ends where the plain one does.
C18_SameAsPlainAllocator ==
    LET plain == PlainRun(NewAllocator(et.size, et.begin), hist)
    IN  /\ \A i \in 1 .. Len(hist) : hist[i].ret = plain.rets[i]
        /\ et.cur = plain.a.cur

\* the used counter is past the capacity, the plain allocator has consumed less,
\* and a call after that was still served
C18_Witness ==
    \E i \in 1 .. Len(hist) :
        /\ hist[i].ret # NULLPTR
        /\ hist[i].usedBefore + hist[i].size > et.size
        /\ \E j \in 1 .. Len(hist) : hist[j].ret = NULLPTR

\* bytes the bump cursor has consumed: its offset from the base
CursorOffset(a) == a.cur - a.begin

\* C23: when every request uses one power-of-two alignment and the region's base
\* is a multiple of it, used_size() is at least the cursor's offset from the
\* base, and so, while used_size() <= capacity, free_size() is at most the bytes
\* left after the cursor.
C23_UsedCoversCursor ==
    UniformAlignment =>
        /\ used_size(et) >= CursorOffset(et)
        /\ used_size(et) <= et.size =>
               free_size(et) <= et.size - CursorOffset(et)

\* requests of one alignment larger than 1 on an aligned base, one of them with
\* padding before it, and a used count still within the capacity
C23_Witness ==
    /\ Len(hist) >= 2
    /\ UniformAlignment
    /\ \A i \in 1 .. Len(hist) : hist[i].ret # NULLPTR /\ hist[i].alignment > 1
    /\ \E i \in 1 .. Len(hist) : hist[i].ret # hist[i].curBefore
    /\ used_size(et) <= et.size
    /\ used_size(et) > CursorOffset(et)

\* ------------------------------------------------------------------------
\* Properties of the loader
\* ------------------------------------------------------------------------

\* the step is a call of runInference / loadProgram / initialize
RunStep == lastOp'.op = "runInference"

LoadStep == lastOp'.op = "loadProgram"

InitStep == lastOp'.op = "initialize"

\* the input_size of the last call is the declared count of both inputs
SizeMatches(call) ==
    /\ call.input_size = InputNumel(model_pte, 0)
    /\ call.input_size = InputNumel(model_pte, 1)

\* createInputTensor's static storage is as it was
StorageUnchanged ==
    /\ sizes_storage' = sizes_storage
    /\ dim_order_storage' = dim_order_storage
    /\ tensor_impls' = tensor_impls

\* C1: runInference before any loadProgram() has returned Ok returns
\* InvalidState and allocates nothing, binds no input, executes nothing and
\* leaves the caller's output buffer alone.
C1_RunBeforeLoadRejected ==
    [][ (RunStep /\ ~loadedOk) =>
            /\ lastOp'.status = "InvalidState"
            /\ loader' = loader
            /\ StorageUnchanged
            /\ lastOp'.bound = << >>
            /\ ~lastOp'.executed
            /\ output' = output ]_vars

C1_Witness ==
    /\ lastOp.op = "runInference"
    /\ lastOp.status = "InvalidState"
    /\ ~loadedOk
    /\ loader.initialized_
    /\ nloads > 0
    /\ used_size(loader.method_allocator_) > 0

\* C2: once a loadProgram() has returned Ok, every runInference call whose
\* input_size is the declared element count and whose output_size is at least
\* the output element count returns Ok and leaves output[i] = input1[i] +
\* input2[i] of that same call.
C2_SumOfOwnInputs ==
    (/\ lastOp.op = "runInference"
     /\ loadedOk
     /\ SizeMatches(lastOp)
     /\ lastOp.output_size >= OutputNumel(model_pte)) =>
        /\ lastOp.status = "Ok"
        /\ \A i \in 1 .. OutputNumel(model_pte) :
               output[i] = lastOp.input1[i] + lastOp.input2[i]

\* the sample's own call: runInference([2], [3], 1, output, 1) gives 5
C2_Witness ==
    /\ lastOp.op = "runInference"
    /\ lastOp.status = "Ok"
    /\ lastOp.input1 = <<2>> /\ lastOp.input2 = <<3>>
    /\ lastOp.input_size = 1 /\ lastOp.output_size = 1
    /\ output[1] = 5

C4_SmallOutputRejected ==
    [][ (/\ RunStep
         /\ isLoaded
         /\ SizeMatches(lastOp')
         /\ lastOp'.output_size < OutputNumel(model_pte)) =>
            /\ lastOp'.status = "InvalidArgument"
            /\ output' = output ]_vars

\* the method ran, and the buffer had room for a part of its result
C4_Witness ==
    /\ lastOp.op = "runInference"
    /\ lastOp.status = "InvalidArgument"
    /\ lastOp.executed
    /\ lastOp.output_size >= 1
    /\ lastOp.output_size < OutputNumel(model_pte)
    /\ output[1] # loader.method_.out[1]

\* C5: initialize() on an initialized loader changes nothing: the allocators
\* are not rebuilt, their used counts stay, isLoaded() stays.
C5_InitializeIdempotent ==
    [][ (InitStep /\ loader.initialized_) =>
            /\ loader' = loader
            /\ IsLoadedIn(loader') = IsLoadedIn(loader) ]_vars

\* initialize() called after loadProgram() has consumed arena capacity
C5_Witness ==
    /\ lastOp.op = "initialize"
    /\ isLoaded
    /\ used_size(loader.method_allocator_) > 0

\* C6: loadProgram() before initialize() returns InvalidState and leaves the
\* loader as it was.
C6_LoadBeforeInitRejected ==
    [][ (LoadStep /\ ~loader.initialized_) =>
            /\ lastOp'.status = "InvalidState"
            /\ loader' = loader
            /\ ~IsLoadedIn(loader') ]_vars

C6_Witness ==
    /\ lastOp.op = "loadProgram"
    /\ lastOp.status = "InvalidState"
    /\ ~loader.initialized_
    /\ model_pte.parseOk

\* C7: isLoaded() is true exactly when some loadProgram() call has returned Ok.
C7_LoadedIffLoadOk == isLoaded <=> loadedOk

\* not loaded after loadProgram() calls that all failed
C7_Witness ==
    /\ ~isLoaded
    /\ nloads >= 2
    /\ lastOp.op = "loadProgram"
    /\ loader.program_ # Null

\* C13: whenever isLoaded() is true, and so after every loadProgram() that
\* returned Ok, the planned buffer set holds as many spans as the program declares
\* planned buffers, span i having the byte length declared for buffer id i.
C13_PlannedSpansMatchPlan ==
    isLoaded =>
        /\ Len(loader.planned_spans_) = Len(model_pte.bufSizes)
        /\ \A i \in 1 .. Len(loader.planned_spans_) :
               loader.planned_spans_[i].size = model_pte.bufSizes[i]

\* C14: the method is executed only inside a runInference call that has bound
\* slot 0 to its input1 and then slot 1 to its input2; nothing is bound or
\* executed before a loadProgram() has returned Ok, and none returns Ok before
\* initialize().
C14_BindThenExecute ==
    /\ lastOp.executed =>
           /\ lastOp.op = "runInference"
           /\ lastOp.bound = <<0, 1>>
           /\ loader.method_.inputs[0] = lastOp.input1
           /\ loader.method_.inputs[1] = lastOp.input2
    /\ lastOp.bound # << >> =>
           /\ lastOp.op = "runInference"
           /\ lastOp.bound \in {<<0>>, <<0, 1>>}
           /\ loadedOk
    /\ (loader.method_ # Null /\ loader.method_.inputs # LoadedMethod(0).inputs)
           => loadedOk
    /\ lastOp.executed => loadedOk
    /\ loadedOk => loader.initialized_

\* a call on a reloaded method that bound two different buffers and executed
C14_Witness ==
    /\ lastOp.op = "runInference"
    /\ lastOp.executed
    /\ lastOp.status = "Ok"
    /\ lastOp.input1 # lastOp.input2
    /\ nloads >= 2

\* the cursor after buffers 1 .. k of sizes were taken from cursor cur
RECURSIVE CursorAfter(_, _, _)
CursorAfter(cur, sizes, k) ==
    IF k = 0 THEN cur
    ELSE AlignPointer(CursorAfter(cur, sizes, k - 1), kDefaultAlignment) + sizes[k]

RECURSIVE SumSizes(_, _)
SumSizes(sizes, k) == IF k = 0 THEN 0 ELSE SumSizes(sizes, k - 1) + sizes[k]

\* buffer k + 1 of sizes does not fit in allocator a after buffers 1 .. k
RefusedAt(a, sizes, k) ==
    AlignPointer(CursorAfter(a.cur, sizes, k), kDefaultAlignment) + sizes[k + 1]
        > a.begin + a.size

\* how many planned buffers of sizes allocator a serves before it refuses one:
\* Len(sizes) when it serves them all
ServedBeforeRefusal(a, sizes) ==
    LET refused == { k \in 0 .. Len(sizes) - 1 : RefusedAt(a, sizes, k) }
    IN  IF refused = {} THEN Len(sizes)
        ELSE CHOOSE k \in refused : \A other \in refused : k <= other

\* the call gets as far as the planned buffers
ReachesPlannedBuffers ==
    loader.initialized_ /\ model_pte.parseOk /\ model_pte.hasForward

\* C15: when the allocation of planned buffer k fails in loadProgram(), the call
\* returns MemoryAllocationFailed at once: the buffers after k are not requested,
\* no planned arena, memory manager or method is made by the call, and what
\* buffers 0 .. k-1 took stays taken.
C15_PlannedAllocationFailureStops ==
    [][ (LoadStep /\ ReachesPlannedBuffers) =>
            LET a == loader.method_allocator_
                k == ServedBeforeRefusal(a, model_pte.bufSizes)
            IN  k < Len(model_pte.bufSizes) =>
                    /\ lastOp'.status = "MemoryAllocationFailed"
                    /\ loader'.method_allocator_.cur
                           = CursorAfter(a.cur, model_pte.bufSizes, k)
                    /\ used_size(loader'.method_allocator_)
                           >= used_size(a) + SumSizes(model_pte.bufSizes, k)
                    /\ Len(loader'.planned_buffers_) = k
                    /\ Len(loader'.planned_spans_) = k
                    /\ loader'.planned_memory_ = loader.planned_memory_
                    /\ loader'.memory_manager_ = loader.memory_manager_
                    /\ loader'.method_ = loader.method_ ]_vars

\* a load stopped at a planned buffer that has served buffers before it and
\* unrequested buffers after it; its cursor is past the pool's first byte
C15_Witness ==
    /\ lastOp.op = "loadProgram"
    /\ lastOp.status = "MemoryAllocationFailed"
    /\ Len(loader.planned_spans_) >= 1
    /\ Len(loader.planned_spans_) + 1 < Len(model_pte.bufSizes)
    /\ loader.method_allocator_.cur > pool_base
    /\ loader.memory_manager_ = Null

\* C16: a second successful loadProgram() leaves the method allocator's used
\* count strictly greater, and its free count strictly smaller, than the first
\* left them, when the program declares a planned buffer of non-zero size; no
\* loader operation gives capacity back.
C16_ReloadConsumesMore ==
    [][ /\ (LoadStep /\ lastOp'.status = "Ok" /\ loadedOk
             /\ \E i \in 1 .. Len(model_pte.bufSizes) : model_pte.bufSizes[i] > 0)
            => /\ used_size(loader'.method_allocator_)
                      > used_size(loader.method_allocator_)
               /\ free_size(loader'.method_allocator_)
                      < free_size(loader.method_allocator_)
        /\ loader.initialized_ =>
               /\ loader'.method_allocator_.cur >= loader.method_allocator_.cur
               /\ used_size(loader'.method_allocator_)
                      >= used_size(loader.method_allocator_) ]_vars

\* the step is a call of createInputTensor
TensorStep == lastOp'.op = "createInputTensor"

\* C19: createInputTensor on a loaded loader with input_index >= 2 returns
\* InvalidArgument whatever size is passed and whatever the metadata query gives,
\* and leaves the allocators, the static storage and the method's inputs alone.
C19_BadIndexIsInvalidArgument ==
    [][ (TensorStep /\ isLoaded /\ lastOp'.input_index >= 2) =>
            /\ lastOp'.status = "InvalidArgument"
            /\ loader'.method_allocator_ = loader.method_allocator_
            /\ loader'.temp_allocator_ = loader.temp_allocator_
            /\ StorageUnchanged
            /\ loader'.method_ = loader.method_ ]_vars

\* C20: a runInference call that returns Ok copies the output tensor's element
\* count of elements: the first that many positions of the caller's buffer get
\* the tensor's values, the positions after them, up to output_size and beyond,
\* keep what they held.
C20_CopiesElementCount ==
    [][ (RunStep /\ lastOp'.status = "Ok") =>
            LET out_tensor == loader'.method_.out
                n == Len(out_tensor)
            IN  /\ n = OutputNumel(model_pte)
                /\ n <= lastOp'.output_size
                /\ \A i \in 1 .. OutBufLen :
                       output'[i] = IF i <= n THEN out_tensor[i] ELSE output[i] ]_vars

\* a call that returned Ok with room for one element more than the tensor has
C20_Witness ==
    /\ lastOp.op = "runInference"
    /\ lastOp.status = "Ok"
    /\ lastOp.output_size > OutputNumel(model_pte)
    /\ \A i \in 1 .. OutputNumel(model_pte) : output[i] = loader.method_.out[i]
    /\ output[1] # 0
    /\ output[lastOp.output_size] = 0

\* used_size() of an allocator the loader owns: 0 while it is not constructed
UsedOf(a) == IF a = Null THEN 0 ELSE used_size(a)

\* C22: no operation lowers the used count of an allocator: not a repeated
\* initialize(), not a failed load, not the non-multiple accounting branch.
C22_UsedNeverLowered ==
    [][ /\ UsedOf(loader'.method_allocator_) >= UsedOf(loader.method_allocator_)
        /\ UsedOf(loader'.temp_allocator_) >= UsedOf(loader.temp_allocator_)
        /\ used_size(et') >= used_size(et) ]_vars

\* initialize() called again on a loader whose last load failed after an
\* earlier one had succeeded, the used count being off the word boundary
C22_Witness ==
    /\ lastOp.op = "initialize"
    /\ loadedOk
    /\ loader.program_.id # loader.method_.program
    /\ UsedOf(loader.method_allocator_) % kDefaultAlignment # 0

\* the last call was a loadProgram() that returned the allocation failure
LoadExhausted ==
    lastOp.op = "loadProgram" /\ lastOp.status = "MemoryAllocationFailed"

\* the embedded program parses, has its entry point and a non-empty memory plan
HasMemoryPlan ==
    model_pte.parseOk /\ model_pte.hasForward /\ model_pte.bufSizes # << >>

\* C24: once a loadProgram() call has failed with MemoryAllocationFailed, every
\* later loadProgram() call fails with it too; and repeated loadProgram() calls
\* on a program with a non-empty memory plan reach such a failure.
C24_ExhaustionIsPermanent ==
    /\ [](LoadExhausted => [](lastOp.op = "loadProgram" => LoadExhausted))
    /\ HasMemoryPlan => <>LoadExhausted

\* a load refused for lack of memory after an earlier load was refused for it:
\* with all kernels registered a load that got this far fails in no other way
C24_Witness ==
    /\ LoadExhausted
    /\ nloads >= 2
    /\ HasMemoryPlan
    /\ model_pte.kernelsOk
    /\ ~loadedOk

\* the call of context c has returned Ok
ReturnedOk(c) == ~Active(c) /\ ctx[c].status = "Ok"

\* the output buffer of context c holds the element-wise sum of the inputs of
\* its own last call
OwnSum(c) ==
    \A i \in 1 .. OutputNumel(model_pte) :
        ctx[c].output[i] = Elem(ctx[c].input1, i) + Elem(ctx[c].input2, i)

\* C21: with no lock in the loader, a runInference call that ran while no other
\* context was inside runInference executed the method on its own two inputs
\* and returned their sum; calls that overlap can execute the method with a
\* slot the other call has re-bound (the state of C21_Witness).
C21_SerializedCallsOwnSum ==
    \A c \in Contexts :
        /\ (ctx[c].ranWith # << >> /\ ~ctx[c].overlapped) =>
               ctx[c].ranWith = <<ctx[c].input1, ctx[c].input2>>
        /\ (ReturnedOk(c) /\ ~ctx[c].overlapped) => OwnSum(c)

\* a call that overlapped with the other context's call, executed the method
\* with a slot holding the other call's input and returned Ok with an output
\* that is not the sum of its own inputs
C21_Witness ==
    \E c \in Contexts :
        /\ ReturnedOk(c)
        /\ ctx[c].overlapped
        /\ \E input_index \in 0 .. 1 :
               /\ ctx[c].ranWith[input_index + 1] # InputOf(ctx[c], input_index)
               /\ ctx[c].ranWith[input_index + 1]
                      = InputOf(ctx[Other(c)], input_index)
        /\ ~OwnSum(c)

\* what a failing loadProgram() is said to keep
LastLoadState(l) ==
    <<l.program_, l.planned_buffers_, l.planned_spans_, l.planned_memory_,
      l.memory_manager_, l.method_, IsLoadedIn(l)>>

\* C8: a loadProgram() call that fails leaves the parsed program, the planned
\* buffer set, the memory manager, the loaded method and isLoaded() as they
\* were before the call.
C8_FailedLoadKeepsState ==
    [][ (LoadStep /\ lastOp'.status # "Ok") =>
            LastLoadState(loader') = LastLoadState(loader) ]_vars

====
